---- MODULE Spec2Model ----
(***************************************************************************)
(* Model of the discovery / match-tracking / event-distribution core of    *)
(* ros2-client's Node (src/src/node.rs).                                   *)
(*                                                                         *)
(* One task runs Node::spin (the Discovery Loop).  Any number of other     *)
(* tasks call status_receiver, wait_for_writer, wait_for_reader,           *)
(* get_publisher_count, get_subscription_count, and Drop.                  *)
(*                                                                         *)
(* Granularity.  Every `self.x.lock().unwrap().op(..)` expression of the   *)
(* source takes the Mutex, does one operation and releases it, so it is    *)
(* one atomic step guarded by the Mutex being free.  The steps of one      *)
(* function are separate actions, so that other tasks interleave between   *)
(* them.  send_status_event holds status_event_senders for its whole body; *)
(* each try_send in it touches one channel only and commutes with the      *)
(* operations on every other channel, so the pass is one step.             *)
(***************************************************************************)
EXTENDS Integers, Sequences, FiniteSets, TLC

\* ------------------------------------------------------------------ bounds

\* Events the Discovery Loop takes from its streams, per specification.
MaxEvents == 1
MaxEventsHub == 3
MaxEventsTrack == 3
MaxEventsGraph == 3
MaxEventsWait == 3
MaxEventsFull == 9
MaxEventsPass == 2
MaxEventsOrder == 10
MaxEventsKeys == 2
\* Channels status_receiver creates, per specification.
MaxChans == 2
MaxChansHub == 3
MaxChansGraph == 1
MaxChansWait == 2
MaxChansFull == 2
MaxChansWaitFull == 1
MaxChansPass == 1
MaxChansKeys == 1

\* async_channel::bounded(8) in status_receiver
QueueCap == 8
\* async_channel::bounded(1) in Node::new
StopCap == 1

\* ------------------------------------------------------------- identifiers

\* GUIDs of local readers / remote writers / local writers / remote readers.
Readers == {"r1", "r2"}
RemoteWriters == {"w1", "w2"}
Writers == {"v1", "v2"}
RemoteReaders == {"q1", "q2"}
\* Gids of remote participants, and the node lists they publish.
Participants == {"p1", "p2"}
NodeSeqs == {<<"nA">>, <<"nB">>, <<"nA", "nB">>}
\* Tasks that call wait_for_writer / wait_for_reader.
Tasks == {"t1", "t2"}

\* Gids of the endpoints create_subscription / create_publisher register,
\* in the order BTreeSet iterates them.
Gids == 1..3
\* Gid of parameter_events_writer and of rosout_writer (when there is one).
ParameterEventsGid == 10
RosoutGid == 11

Regions == {"readers_to_remote_writers", "writers_to_remote_readers",
            "external_nodes", "status_event_senders"}

\* ------------------------------------------------------------------ events

\* DomainParticipantStatusEvent, the variants spin matches on and one other.
RemoteWriterMatched(r, w) ==
  [type |-> "RemoteWriterMatched", local |-> r, remote |-> w]
RemoteReaderMatched(v, q) ==
  [type |-> "RemoteReaderMatched", local |-> v, remote |-> q]
WriterLost(w) == [type |-> "WriterLost", local |-> "-", remote |-> w]
ReaderLost(q) == [type |-> "ReaderLost", local |-> "-", remote |-> q]
OtherStatus == [type |-> "Other", local |-> "-", remote |-> "-"]

ReaderSideEvents ==
  {RemoteWriterMatched(r, w) : r \in Readers, w \in RemoteWriters}
    \cup {WriterLost(w) : w \in RemoteWriters}
WriterSideEvents ==
  {RemoteReaderMatched(v, q) : v \in Writers, q \in RemoteReaders}
    \cup {ReaderLost(q) : q \in RemoteReaders}
StatusEvents == ReaderSideEvents \cup WriterSideEvents \cup {OtherStatus}

\* Items of the ros_discovery stream: Ok((ParticipantEntitiesInfo, _)) or Err.
GraphOk(p, s) == [ok |-> TRUE, gid |-> p, node_entities_info_seq |-> s]
GraphErr == [ok |-> FALSE, gid |-> "-", node_entities_info_seq |-> <<>>]
GraphItems == {GraphOk(p, s) : p \in Participants, s \in NodeSeqs} \cup {GraphErr}

\* NodeEvent::DDS(status) and NodeEvent::ROS(part_update)
DDS(e) == [kind |-> "DDS", type |-> e.type, local |-> e.local,
           remote |-> e.remote, seq |-> <<>>]
ROS(g) == [kind |-> "ROS", type |-> "Graph", local |-> g.gid,
           remote |-> "-", seq |-> g.node_entities_info_seq]
\* How the history records an Err item of the ros_discovery stream.
GraphErrMark == [kind |-> "Err", type |-> "-", local |-> "-", remote |-> "-",
                 seq |-> <<>>]
NoEvent == [kind |-> "none", type |-> "-", local |-> "-", remote |-> "-",
            seq |-> <<>>]

\* ------------------------------------------------------------------- state

VARIABLES
  readers,                    \* set: Gids of the readers created via this Node
  writers,                    \* set: Gids of the writers created via this Node
  rosout_writer,              \* TRUE for Some(publisher), FALSE for None
  node_info,                  \* the NodeEntitiesInfo last given to update_node
  reg,                        \* the last add_reader / add_writer call
  readers_to_remote_writers,  \* map: local reader -> set of matched remote writers
  writers_to_remote_readers,  \* map: local writer -> set of matched remote readers
  external_nodes,             \* map: participant gid -> node list
  status_event_senders,       \* Vec of Senders: sequence of channel ids
  chan,                       \* the channels status_receiver created
  stop_spin,                  \* tokens in the stop channel
  spin_pc,                    \* position of the Discovery Loop
  spin_ev,                    \* the NodeEvent the loop is about to broadcast
  spin_old,                   \* external_nodes as it was when the loop took spin_ev
  held,                       \* Mutex owner per region ("" when free)
  task,                       \* per task: the wait_for_* call in progress
  query,                      \* the last match-count query and its outcome
  stop_err,                   \* Drop logged "Cannot notify spin task to stop"
  nev,                        \* history: how many stream items the loop has taken
  seen,                       \* history: what the observed component has read
  log                         \* history: the items taken, as NodeEvents

vars == <<readers, writers, rosout_writer, node_info, reg,
          readers_to_remote_writers, writers_to_remote_readers, external_nodes,
          status_event_senders, chan, stop_spin, spin_pc, spin_ev, spin_old,
          held, task, query, stop_err, nev, log, seen>>

registryVars == <<readers, writers, rosout_writer, node_info, reg>>
trackerVars == <<readers_to_remote_writers, writers_to_remote_readers>>
hubVars == <<status_event_senders, chan>>
spinVars == <<spin_pc, spin_ev, spin_old>>

EmptyMap == [k \in {} |-> {}]
IdleTask == [pc |-> "idle", fn |-> "-", guid |-> "-", rx |-> 0, ret |-> "-",
             matched |-> FALSE]
NoQuery == [fn |-> "-", guid |-> "-", count |-> 0, err |-> FALSE]
\* Nothing was given to update_node yet / no add_reader, add_writer call yet.
NoNodeInfo ==
  [sent |-> FALSE, info |-> [reader_gid_seq |-> <<>>, writer_gid_seq |-> <<>>]]
NoReg == [fn |-> "-", gid |-> 0, present |-> FALSE]
\* No component is observed yet.
NoSeen == [rx |-> 0, since |-> 0, got |-> <<>>]

\* Node::new with options.enable_rosout = enable_rosout
NodeNew(enable_rosout) ==
  /\ readers = {}
  /\ writers = {}
  /\ rosout_writer = enable_rosout
  /\ node_info = NoNodeInfo
  /\ reg = NoReg
  /\ readers_to_remote_writers = EmptyMap
  /\ writers_to_remote_readers = EmptyMap
  /\ external_nodes = [k \in {} |-> <<>>]
  /\ status_event_senders = <<>>
  /\ chan = <<>>
  /\ stop_spin = 0
  /\ spin_pc = "not_started"
  /\ spin_ev = NoEvent
  /\ spin_old = [k \in {} |-> <<>>]
  /\ held = [g \in Regions |-> ""]
  /\ task = [t \in Tasks |-> IdleTask]
  /\ query = NoQuery
  /\ stop_err = FALSE
  /\ nev = 0
  /\ log = <<>>
  /\ seen = NoSeen

\* Node::new with NodeOptions::new(), where enable_rosout is true.
Init == NodeNew(TRUE)

\* Node::new with either value of options.enable_rosout.
InitOptions == \E enable_rosout \in BOOLEAN : NodeNew(enable_rosout)

\* -------------------------------------------------------- Entity Registry

\* `for x in &self.readers`: a BTreeSet<Gid> iterates in ascending order.
RECURSIVE InOrder(_)
InOrder(set) ==
  IF set = {} THEN <<>>
  ELSE LET least == CHOOSE x \in set : \A y \in set : x <= y
       IN <<least>> \o InOrder(set \ {least})

\* self.readers.insert(reader) / self.writers.insert(writer)
BTreeSetInsert(set, gid) == set \cup {gid}

\* NodeEntitiesInfo::new(name, namespace): no reader and no writer ids.
NewNodeInfo == [reader_gid_seq |-> <<>>, writer_gid_seq |-> <<>>]

\* node_info.add_reader(gid) / node_info.add_writer(gid) on one id sequence.
NodeInfoAdd(seq, gid) == Append(seq, gid)

\* for x in &set { node_info.add_..(*x); }, given the set's iteration order.
RECURSIVE NodeInfoAddAll(_, _)
NodeInfoAddAll(seq, gids) ==
  IF gids = <<>> THEN seq
  ELSE NodeInfoAddAll(NodeInfoAdd(seq, Head(gids)), Tail(gids))

\* Mutant: the `if let Some(row) = &self.rosout_writer` block is missing.
generate_node_info_NoRosout(rs, ws, rosout) ==
  [reader_gid_seq |-> NodeInfoAddAll(NewNodeInfo.reader_gid_seq, InOrder(rs)),
   writer_gid_seq |->
     NodeInfoAddAll(NodeInfoAdd(NewNodeInfo.writer_gid_seq, ParameterEventsGid),
                    InOrder(ws))]

\* generate_node_info, of the registry's sets and the rosout_writer option.
generate_node_info(rs, ws, rosout) ==
  LET param == NodeInfoAdd(NewNodeInfo.writer_gid_seq, ParameterEventsGid)
      builtin == IF rosout THEN NodeInfoAdd(param, RosoutGid) ELSE param
  IN [reader_gid_seq |->
        NodeInfoAddAll(NewNodeInfo.reader_gid_seq, InOrder(rs)),
      writer_gid_seq |-> NodeInfoAddAll(builtin, InOrder(ws))]

\* self.ros_context.update_node(info): what the discovery layer now holds.
update_node(info) == [sent |-> TRUE, info |-> info]

\* Mutant: the descriptor sent before is patched with the id, not regenerated.
add_reader_Patches(gid) ==
  /\ readers' = BTreeSetInsert(readers, gid)
  /\ node_info' =
       update_node([node_info.info EXCEPT
                      !.reader_gid_seq = NodeInfoAdd(@, gid)])
  /\ reg' = [fn |-> "add_reader", gid |-> gid, present |-> gid \in readers]
  /\ UNCHANGED <<writers, rosout_writer, seen, trackerVars, external_nodes,
                 hubVars,
                 stop_spin, spinVars, held, task, query, stop_err, nev, log>>

\* add_reader, as create_subscription calls it with the new reader's Gid.
add_reader(gid) ==
  /\ readers' = BTreeSetInsert(readers, gid)
  /\ node_info' =
       update_node(generate_node_info(readers', writers, rosout_writer))
  /\ reg' = [fn |-> "add_reader", gid |-> gid, present |-> gid \in readers]
  /\ UNCHANGED <<writers, rosout_writer, seen, trackerVars, external_nodes,
                 hubVars,
                 stop_spin, spinVars, held, task, query, stop_err, nev, log>>

\* add_writer, as create_publisher calls it with the new writer's Gid.
add_writer(gid) ==
  /\ writers' = BTreeSetInsert(writers, gid)
  /\ node_info' =
       update_node(generate_node_info(readers, writers', rosout_writer))
  /\ reg' = [fn |-> "add_writer", gid |-> gid, present |-> gid \in writers]
  /\ UNCHANGED <<readers, rosout_writer, seen, trackerVars, external_nodes,
                 hubVars,
                 stop_spin, spinVars, held, task, query, stop_err, nev, log>>

\* Gid::from(guid), of the GUIDs of the local endpoints.
GidOf(guid) ==
  CASE guid = "r1" -> 1
    [] guid = "r2" -> 2
    [] guid = "v1" -> 3
    [] guid = "v2" -> 4

\* create_subscription, once the context has created the reader `guid`
\* (when that fails the function returns before add_reader).
create_subscription(guid) == add_reader(GidOf(guid))

\* create_publisher, once the context has created the writer `guid`.
create_publisher(guid) == add_writer(GidOf(guid))

\* --------------------------------------------------------- Match Tracker

\* Mutant: map.insert(local, BTreeSet::from([remote])), which replaces the set.
MatchInsert_Replace(map, local, remote) ==
  [k \in DOMAIN map \cup {local} |-> IF k = local THEN {remote} ELSE map[k]]

\* .entry(local).and_modify(|s| {s.insert(remote);}).or_insert(BTreeSet::from([remote]))
MatchInsert(map, local, remote) ==
  IF local \in DOMAIN map
    THEN [map EXCEPT ![local] = @ \cup {remote}]
    ELSE [k \in DOMAIN map \cup {local} |->
            IF k = local THEN {remote} ELSE map[k]]

\* Mutant: the loop over the entries stops after the first removal.
LostRemove_FirstOnly(map, guid) ==
  LET has == {k \in DOMAIN map : guid \in map[k]}
  IN IF has = {} THEN map
     ELSE [map EXCEPT ![CHOOSE k \in has : TRUE] = @ \ {guid}]

\* Mutant: entries left empty are dropped (map.retain(|_, s| !s.is_empty())).
LostRemove_DropsEmpty(map, guid) ==
  [k \in {x \in DOMAIN map : map[x] \ {guid} # {}} |-> map[k] \ {guid}]

\* for (_local, set) in map.iter_mut() { set.remove(&guid); }
LostRemove(map, guid) == [k \in DOMAIN map |-> map[k] \ {guid}]

\* The match arms of spin on a status event: the maps after the event.
UpdateReaders(map, e) ==
  CASE e.type = "RemoteWriterMatched" -> MatchInsert(map, e.local, e.remote)
    [] e.type = "WriterLost" -> LostRemove(map, e.remote)
    [] OTHER -> map

UpdateWriters(map, e) ==
  CASE e.type = "RemoteReaderMatched" -> MatchInsert(map, e.local, e.remote)
    [] e.type = "ReaderLost" -> LostRemove(map, e.remote)
    [] OTHER -> map

\* The Mutex a status event's match arm locks ("" for the `_ => {}` arm).
RegionOf(e) ==
  CASE e.type \in {"RemoteWriterMatched", "WriterLost"} -> "readers_to_remote_writers"
    [] e.type \in {"RemoteReaderMatched", "ReaderLost"} -> "writers_to_remote_readers"
    [] OTHER -> ""

\* Mutant: the error is logged whenever the count is 0.
MatchCount_ErrOnZero(map, guid) ==
  IF guid \in DOMAIN map
    THEN [count |-> Cardinality(map[guid]), err |-> map[guid] = {}]
    ELSE [count |-> 0, err |-> TRUE]

\* .get(&guid).map(BTreeSet::len).unwrap_or_else(|| { error!(..); 0 })
MatchCount(map, guid) ==
  IF guid \in DOMAIN map
    THEN [count |-> Cardinality(map[guid]), err |-> FALSE]
    ELSE [count |-> 0, err |-> TRUE]

get_publisher_count(guid) == MatchCount(readers_to_remote_writers, guid)
get_subscription_count(guid) == MatchCount(writers_to_remote_readers, guid)

\* .get(&guid).map(|s| !s.is_empty()).unwrap_or(false)
AlreadyPresent(map, guid) == guid \in DOMAIN map /\ map[guid] # {}

\* Mutant: the new node list is appended to the participant's entry.
TableInsert_Merge(map, gid, seq) ==
  [k \in DOMAIN map \cup {gid} |->
     IF k # gid THEN map[k]
     ELSE IF gid \in DOMAIN map THEN map[gid] \o seq ELSE seq]

\* info_map.insert(gid, seq)
TableInsert(map, gid, seq) ==
  [k \in DOMAIN map \cup {gid} |-> IF k = gid THEN seq ELSE map[k]]

\* ------------------------------------------------- Event Distribution Hub

NewChan(owner) == [q |-> <<>>, open |-> TRUE, owner |-> owner]

\* Dropping the Receiver closes the channel; what it still queued is gone with it.
CloseChan(ch) == [ch EXCEPT !.open = FALSE, !.q = <<>>]

\* Mutant: a full queue gives up its oldest event for the new one.
TrySend_Overwrite(ch, ev) ==
  IF ~ch.open THEN [res |-> "Closed", ch |-> ch]
  ELSE IF Len(ch.q) >= QueueCap
    THEN [res |-> "Ok", ch |-> [ch EXCEPT !.q = Append(Tail(@), ev)]]
  ELSE [res |-> "Ok", ch |-> [ch EXCEPT !.q = Append(@, ev)]]

\* sender.try_send(event): Closed before Full, as in async_channel.
TrySend(ch, ev) ==
  IF ~ch.open THEN [res |-> "Closed", ch |-> ch]
  ELSE IF Len(ch.q) >= QueueCap THEN [res |-> "Full", ch |-> ch]
  ELSE [res |-> "Ok", ch |-> [ch EXCEPT !.q = Append(@, ev)]]

\* The indices the first loop of send_status_event pushes to `closed`, ascending.
RECURSIVE ClosedIndices(_, _, _, _)
ClosedIndices(senders, chans, ev, n) ==
  IF n = 0 THEN <<>>
  ELSE LET rest == ClosedIndices(senders, chans, ev, n - 1)
       IN IF TrySend(chans[senders[n]], ev).res = "Closed"
            THEN Append(rest, n) ELSE rest

\* Vec::swap_remove(i): the last element takes the place of element i.
SwapRemove(v, i) ==
  IF i = Len(v) THEN SubSeq(v, 1, Len(v) - 1)
  ELSE [SubSeq(v, 1, Len(v) - 1) EXCEPT ![i] = v[Len(v)]]

\* Mutant: for c in closed.iter() { .. }, the indices in ascending order.
RECURSIVE RemoveClosed_Ascending(_, _)
RemoveClosed_Ascending(v, closed) ==
  IF closed = <<>> THEN v
  ELSE RemoveClosed_Ascending(SwapRemove(v, Head(closed)), Tail(closed))

\* for c in closed.iter().rev() { sender_array.swap_remove(*c); }
RECURSIVE RemoveClosed(_, _)
RemoveClosed(v, closed) ==
  IF closed = <<>> THEN v
  ELSE RemoveClosed(SwapRemove(v, closed[Len(closed)]),
                    SubSeq(closed, 1, Len(closed) - 1))

InSenders(senders, c) == \E i \in 1..Len(senders) : senders[i] = c

\* Mutant: the removal loop is missing, closed Senders stay in the list.
SendersAfter_KeepsClosed(senders, chans, ev) == senders

\* send_status_event: the sender list and the channels after one pass.
SendersAfter(senders, chans, ev) ==
  RemoveClosed(senders, ClosedIndices(senders, chans, ev, Len(senders)))

\* Mutant: the pass sends every Sender the event twice.
ChansAfter_Twice(senders, chans, ev) ==
  [c \in DOMAIN chans |->
     IF InSenders(senders, c)
       THEN TrySend(TrySend(chans[c], ev).ch, ev).ch ELSE chans[c]]

\* Mutant: the pass stops at the first closed Sender it meets.
RECURSIVE ServedUpToClosed(_, _, _)
ServedUpToClosed(senders, chans, n) ==
  IF n > Len(senders) \/ ~chans[senders[n]].open THEN {}
  ELSE {senders[n]} \cup ServedUpToClosed(senders, chans, n + 1)

ChansAfter_StopAtClosed(senders, chans, ev) ==
  [c \in DOMAIN chans |->
     IF c \in ServedUpToClosed(senders, chans, 1)
       THEN TrySend(chans[c], ev).ch ELSE chans[c]]

ChansAfter(senders, chans, ev) ==
  [c \in DOMAIN chans |->
     IF InSenders(senders, c) THEN TrySend(chans[c], ev).ch ELSE chans[c]]

\* status_receiver: a new bounded(8) channel, its Sender pushed to the list.
status_receiver(owner) ==
  /\ held["status_event_senders"] = ""
  /\ chan' = Append(chan, NewChan(owner))
  /\ status_event_senders' = Append(status_event_senders, Len(chan) + 1)
  /\ held' = held

\* --------------------------------------------------------- Discovery Loop

\* spin up to the first select!
SpinStart ==
  /\ spin_pc = "not_started"
  /\ spin_pc' = "select"
  /\ UNCHANGED <<registryVars, seen, trackerVars, external_nodes, hubVars, stop_spin, spin_ev,
                 spin_old, held, task, query, stop_err, nev, log>>

\* Mutant: the stop arm takes the token and goes on with the loop.
SpinStop_Continues ==
  /\ spin_pc = "select"
  /\ stop_spin > 0
  /\ stop_spin' = stop_spin - 1
  /\ spin_pc' = "select"
  /\ UNCHANGED <<registryVars, seen, trackerVars, external_nodes, hubVars, spin_ev, spin_old,
                 held, task, query, stop_err, nev, log>>

\* select! branch: stop_spin_receiver.recv() => break
SpinStop ==
  /\ spin_pc = "select"
  /\ stop_spin > 0
  /\ stop_spin' = stop_spin - 1
  /\ spin_pc' = "ended"
  /\ UNCHANGED <<registryVars, seen, trackerVars, external_nodes, hubVars, spin_ev, spin_old,
                 held, task, query, stop_err, nev, log>>

\* A wait_for_* call in progress that waits for the endpoint event e matches.
Awaits(tk, e) ==
  /\ tk.pc \in {"check", "waiting"}
  /\ \/ tk.fn = "wait_for_writer" /\ e.type = "RemoteWriterMatched"
     \/ tk.fn = "wait_for_reader" /\ e.type = "RemoteReaderMatched"
  /\ tk.guid = e.local

\* The streams of a specification deliver `limit` items in all; hist says
\* what history is kept of them: "log" (the items), "count" (their number) or
\* "free" (none, and the streams never end).
MayTake(limit, hist) == hist # "free" => nev < limit
Counted(hist) == IF hist = "free" THEN nev ELSE nev + 1
Logged(hist, ev) == IF hist = "log" THEN Append(log, ev) ELSE log

\* Mutant: the `_ => {}` arm is `_ => continue`, which skips the broadcast.
SpinDds_OtherNotSent(e, limit, hist) ==
  /\ spin_pc = "select"
  /\ MayTake(limit, hist)
  /\ RegionOf(e) # "" => held[RegionOf(e)] = ""
  /\ readers_to_remote_writers' = UpdateReaders(readers_to_remote_writers, e)
  /\ writers_to_remote_readers' = UpdateWriters(writers_to_remote_readers, e)
  /\ spin_ev' = IF RegionOf(e) = "" THEN NoEvent ELSE DDS(e)
  /\ spin_pc' = IF RegionOf(e) = "" THEN "select" ELSE "dds_send"
  /\ nev' = Counted(hist)
  /\ log' = Logged(hist, DDS(e))
  /\ task' = [t \in Tasks |->
                IF Awaits(task[t], e) THEN [task[t] EXCEPT !.matched = TRUE]
                ELSE task[t]]
  /\ UNCHANGED <<registryVars, seen, external_nodes, hubVars, stop_spin, spin_old,
                 held, query, stop_err>>

\* Mutant: the match arm has not run when the event goes to its broadcast.
SpinDds_NotUpdated(e, limit, hist) ==
  /\ spin_pc = "select"
  /\ MayTake(limit, hist)
  /\ spin_ev' = DDS(e)
  /\ spin_pc' = "dds_send"
  /\ nev' = Counted(hist)
  /\ log' = Logged(hist, DDS(e))
  /\ task' = [t \in Tasks |->
                IF Awaits(task[t], e) THEN [task[t] EXCEPT !.matched = TRUE]
                ELSE task[t]]
  /\ UNCHANGED <<registryVars, seen, trackerVars, external_nodes, hubVars,
                 stop_spin, spin_old, held, query, stop_err>>

\* select! branch: a status event; its match arm updates the Match Tracker.
SpinDds(e, limit, hist) ==
  /\ spin_pc = "select"
  /\ MayTake(limit, hist)
  /\ RegionOf(e) # "" => held[RegionOf(e)] = ""
  /\ readers_to_remote_writers' = UpdateReaders(readers_to_remote_writers, e)
  /\ writers_to_remote_readers' = UpdateWriters(writers_to_remote_readers, e)
  /\ spin_ev' = DDS(e)
  /\ spin_pc' = "dds_send"
  /\ nev' = Counted(hist)
  /\ log' = Logged(hist, DDS(e))
  /\ task' = [t \in Tasks |->
                IF Awaits(task[t], e) THEN [task[t] EXCEPT !.matched = TRUE]
                ELSE task[t]]
  /\ UNCHANGED <<registryVars, seen, external_nodes, hubVars, stop_spin, spin_old, held, query,
                 stop_err>>

\* Mutant: the Err arm resets the table (info_map.clear()).
SpinRos_ErrClearsTable(g, limit, hist) ==
  /\ spin_pc = "select"
  /\ MayTake(limit, hist)
  /\ nev' = Counted(hist)
  /\ held["external_nodes"] = ""
  /\ IF g.ok
       THEN /\ held' = [held EXCEPT !["external_nodes"] = "spin"]
            /\ external_nodes' =
                 TableInsert(external_nodes, g.gid, g.node_entities_info_seq)
            /\ spin_old' = external_nodes
            /\ spin_ev' = ROS(g)
            /\ spin_pc' = "ros_send"
            /\ log' = Logged(hist, ROS(g))
       ELSE /\ log' = Logged(hist, GraphErrMark)
            /\ external_nodes' = [k \in {} |-> <<>>]
            /\ UNCHANGED <<spinVars, held>>
  /\ UNCHANGED <<registryVars, seen, trackerVars, hubVars, stop_spin, task, query,
                 stop_err>>

\* Mutant: the item is unwrapped with `?`, so an Err ends spin.
SpinRos_ErrEndsLoop(g, limit, hist) ==
  /\ spin_pc = "select"
  /\ MayTake(limit, hist)
  /\ nev' = Counted(hist)
  /\ IF g.ok
       THEN /\ held["external_nodes"] = ""
            /\ held' = [held EXCEPT !["external_nodes"] = "spin"]
            /\ external_nodes' =
                 TableInsert(external_nodes, g.gid, g.node_entities_info_seq)
            /\ spin_old' = external_nodes
            /\ spin_ev' = ROS(g)
            /\ spin_pc' = "ros_send"
            /\ log' = Logged(hist, ROS(g))
       ELSE /\ log' = Logged(hist, GraphErrMark)
            /\ spin_pc' = "ended"
            /\ UNCHANGED <<external_nodes, spin_ev, spin_old, held>>
  /\ UNCHANGED <<registryVars, seen, trackerVars, hubVars, stop_spin, task, query,
                 stop_err>>

\* select! branch: an item of the ros_discovery stream.  Ok: the table entry
\* is replaced under the external_nodes Mutex, which stays locked (info_map
\* lives to the end of the arm).  Err: warn! only.
SpinRos(g, limit, hist) ==
  /\ spin_pc = "select"
  /\ MayTake(limit, hist)
  /\ nev' = Counted(hist)
  /\ IF g.ok
       THEN /\ held["external_nodes"] = ""
            /\ held' = [held EXCEPT !["external_nodes"] = "spin"]
            /\ external_nodes' =
                 TableInsert(external_nodes, g.gid, g.node_entities_info_seq)
            /\ spin_old' = external_nodes
            /\ spin_ev' = ROS(g)
            /\ spin_pc' = "ros_send"
            /\ log' = Logged(hist, ROS(g))
       ELSE /\ log' = Logged(hist, GraphErrMark)
            /\ UNCHANGED <<external_nodes, spinVars, held>>
  /\ UNCHANGED <<registryVars, seen, trackerVars, hubVars, stop_spin, task, query, stop_err>>

\* self.send_status_event(&event), then the end of the select! arm.
SpinSend ==
  /\ spin_pc \in {"dds_send", "ros_send"}
  /\ held["status_event_senders"] = ""
  /\ status_event_senders' = SendersAfter(status_event_senders, chan, spin_ev)
  /\ chan' = ChansAfter(status_event_senders, chan, spin_ev)
  /\ held' = IF spin_pc = "ros_send"
               THEN [held EXCEPT !["external_nodes"] = ""] ELSE held
  /\ spin_pc' = "select"
  /\ spin_ev' = NoEvent
  /\ spin_old' = [k \in {} |-> <<>>]
  /\ UNCHANGED <<registryVars, seen, trackerVars, external_nodes, stop_spin, task, query,
                 stop_err, nev, log>>

\* ------------------------------------------------------------ other tasks

\* A component calls status_receiver() and keeps the Receiver.
AppSubscribe(maxCh) ==
  /\ Len(chan) < maxCh
  /\ status_receiver("app")
  /\ UNCHANGED <<registryVars, seen, trackerVars, external_nodes, stop_spin, spinVars, task,
                 query, stop_err, nev, log>>

\* The component reads one event from its Receiver.
AppRecv(c) ==
  /\ chan[c].owner = "app" /\ chan[c].open /\ chan[c].q # <<>>
  /\ chan' = [chan EXCEPT ![c].q = Tail(@)]
  /\ UNCHANGED <<registryVars, seen, trackerVars, external_nodes, status_event_senders, stop_spin,
                 spinVars, held, task, query, stop_err, nev, log>>

\* The component drops its Receiver.
AppClose(c) ==
  /\ chan[c].owner = "app" /\ chan[c].open
  /\ chan' = [chan EXCEPT ![c] = CloseChan(@)]
  /\ UNCHANGED <<registryVars, seen, trackerVars, external_nodes, status_event_senders, stop_spin,
                 spinVars, held, task, query, stop_err, nev, log>>

\* How many items of the history have had their broadcast pass (or none
\* to have): all but the one the loop is about to broadcast.
PassedCount ==
  IF spin_pc \in {"dds_send", "ros_send"} THEN Len(log) - 1 ELSE Len(log)

\* The observed component calls status_receiver() and keeps the Receiver;
\* the history notes how far the broadcasts had come when the call returned.
ObsSubscribe ==
  /\ seen = NoSeen
  /\ status_receiver("obs")
  /\ seen' = [rx |-> Len(chan) + 1, since |-> PassedCount, got |-> <<>>]
  /\ UNCHANGED <<registryVars, trackerVars, external_nodes, stop_spin,
                 spinVars, task, query, stop_err, nev, log>>

\* The observed component reads one event from its Receiver; the history
\* notes the event.
ObsRecv ==
  /\ seen.rx # 0
  /\ chan[seen.rx].open /\ chan[seen.rx].q # <<>>
  /\ chan' = [chan EXCEPT ![seen.rx].q = Tail(@)]
  /\ seen' = [seen EXCEPT !.got = Append(@, Head(chan[seen.rx].q))]
  /\ UNCHANGED <<registryVars, trackerVars, external_nodes,
                 status_event_senders, stop_spin, spinVars, held, task, query,
                 stop_err, nev, log>>

WaitMap(fn) ==
  IF fn = "wait_for_writer" THEN readers_to_remote_writers
  ELSE writers_to_remote_readers

WaitRegion(fn) ==
  IF fn = "wait_for_writer" THEN "readers_to_remote_writers"
  ELSE "writers_to_remote_readers"

\* The event the waiting loop of fn(guid) breaks on.
IsAwaited(fn, guid, ev) ==
  /\ ev.kind = "DDS"
  /\ ev.type = (IF fn = "wait_for_writer" THEN "RemoteWriterMatched"
                ELSE "RemoteReaderMatched")
  /\ ev.local = guid

\* Mutant: the call does not push its Sender before it reads the Match Tracker.
WaitBegin_NotSubscribed(t, fn, guid, maxCh) ==
  /\ task[t].pc \in {"idle", "returned"}
  /\ Len(chan) < maxCh
  /\ held["status_event_senders"] = ""
  /\ chan' = Append(chan, NewChan(t))
  /\ task' = [task EXCEPT ![t] =
                [pc |-> "check", fn |-> fn, guid |-> guid,
                 rx |-> Len(chan) + 1, ret |-> "-", matched |-> FALSE]]
  /\ UNCHANGED <<registryVars, seen, trackerVars, external_nodes,
                 status_event_senders, stop_spin, spinVars, held, query,
                 stop_err, nev, log>>

\* wait_for_writer / wait_for_reader, first statement: status_receiver().
WaitBegin(t, fn, guid, maxCh) ==
  /\ task[t].pc \in {"idle", "returned"}
  /\ Len(chan) < maxCh
  /\ status_receiver(t)
  /\ task' = [task EXCEPT ![t] =
                [pc |-> "check", fn |-> fn, guid |-> guid,
                 rx |-> Len(chan) + 1, ret |-> "-", matched |-> FALSE]]
  /\ UNCHANGED <<registryVars, seen, trackerVars, external_nodes, stop_spin, spinVars, query,
                 stop_err, nev, log>>

\* Mutant: the map is read with entry(guid).or_default(), which makes a key.
WaitCheck_CreatesKey(t) ==
  /\ task[t].pc = "check"
  /\ held[WaitRegion(task[t].fn)] = ""
  /\ IF AlreadyPresent(WaitMap(task[t].fn), task[t].guid)
       THEN /\ task' = [task EXCEPT ![t].pc = "returned", ![t].ret = "present"]
            /\ chan' = [chan EXCEPT ![task[t].rx] = CloseChan(@)]
       ELSE /\ task' = [task EXCEPT ![t].pc = "waiting"]
            /\ chan' = chan
  /\ readers_to_remote_writers' =
       IF task[t].fn = "wait_for_writer"
            /\ task[t].guid \notin DOMAIN readers_to_remote_writers
         THEN [k \in DOMAIN readers_to_remote_writers \cup {task[t].guid} |->
                 IF k = task[t].guid THEN {}
                 ELSE readers_to_remote_writers[k]]
         ELSE readers_to_remote_writers
  /\ writers_to_remote_readers' =
       IF task[t].fn = "wait_for_reader"
            /\ task[t].guid \notin DOMAIN writers_to_remote_readers
         THEN [k \in DOMAIN writers_to_remote_readers \cup {task[t].guid} |->
                 IF k = task[t].guid THEN {}
                 ELSE writers_to_remote_readers[k]]
         ELSE writers_to_remote_readers
  /\ UNCHANGED <<registryVars, seen, external_nodes, status_event_senders,
                 stop_spin, spinVars, held, query, stop_err, nev, log>>

\* Mutant: the MutexGuard of the map is bound to a variable and lives across
\* the waiting loop's await.
WaitCheck_HoldsGuard(t) ==
  /\ task[t].pc = "check"
  /\ held[WaitRegion(task[t].fn)] = ""
  /\ IF AlreadyPresent(WaitMap(task[t].fn), task[t].guid)
       THEN /\ task' = [task EXCEPT ![t].pc = "returned", ![t].ret = "present"]
            /\ chan' = [chan EXCEPT ![task[t].rx] = CloseChan(@)]
            /\ held' = held
       ELSE /\ task' = [task EXCEPT ![t].pc = "waiting"]
            /\ chan' = chan
            /\ held' = [held EXCEPT ![WaitRegion(task[t].fn)] = t]
  /\ UNCHANGED <<registryVars, seen, trackerVars, external_nodes, status_event_senders, stop_spin,
                 spinVars, query, stop_err, nev, log>>

\* let already_present = ...; if it holds the call returns (the Receiver drops).
WaitCheck(t) ==
  /\ task[t].pc = "check"
  /\ held[WaitRegion(task[t].fn)] = ""
  /\ IF AlreadyPresent(WaitMap(task[t].fn), task[t].guid)
       THEN /\ task' = [task EXCEPT ![t].pc = "returned", ![t].ret = "present"]
            /\ chan' = [chan EXCEPT ![task[t].rx] = CloseChan(@)]
       ELSE /\ task' = [task EXCEPT ![t].pc = "waiting"]
            /\ chan' = chan
  /\ UNCHANGED <<registryVars, seen, trackerVars, external_nodes, status_event_senders, stop_spin,
                 spinVars, held, query, stop_err, nev, log>>

\* One turn of the waiting loop: status_receiver.select_next_some().await
WaitRecv(t) ==
  /\ task[t].pc = "waiting"
  /\ chan[task[t].rx].q # <<>>
  /\ IF IsAwaited(task[t].fn, task[t].guid, Head(chan[task[t].rx].q))
       THEN /\ task' = [task EXCEPT ![t].pc = "returned", ![t].ret = "event"]
            /\ chan' = [chan EXCEPT ![task[t].rx] = CloseChan(@)]
       ELSE /\ task' = task
            /\ chan' = [chan EXCEPT ![task[t].rx].q = Tail(@)]
  /\ UNCHANGED <<registryVars, seen, trackerVars, external_nodes, status_event_senders, stop_spin,
                 spinVars, held, query, stop_err, nev, log>>

\* Mutant: the abandoned call takes the last Sender out of the list.
WaitAbandon_PopsSender(t) ==
  /\ task[t].pc = "waiting"
  /\ task' = [task EXCEPT ![t].pc = "idle", ![t].ret = "abandoned"]
  /\ chan' = [chan EXCEPT ![task[t].rx] = CloseChan(@)]
  /\ status_event_senders' =
       SubSeq(status_event_senders, 1, Len(status_event_senders) - 1)
  /\ UNCHANGED <<registryVars, seen, trackerVars, external_nodes, stop_spin,
                 spinVars, held, query, stop_err, nev, log>>

\* The caller drops the wait_for_* future at its suspension point.
WaitAbandon(t) ==
  /\ task[t].pc = "waiting"
  /\ task' = [task EXCEPT ![t].pc = "idle", ![t].ret = "abandoned"]
  /\ chan' = [chan EXCEPT ![task[t].rx] = CloseChan(@)]
  /\ UNCHANGED <<registryVars, seen, trackerVars, external_nodes, status_event_senders, stop_spin,
                 spinVars, held, query, stop_err, nev, log>>

\* A call of get_publisher_count(guid).
QueryPublisherCount(guid) ==
  /\ held["readers_to_remote_writers"] = ""
  /\ query' = [fn |-> "get_publisher_count", guid |-> guid,
               count |-> get_publisher_count(guid).count,
               err |-> get_publisher_count(guid).err]
  /\ UNCHANGED <<registryVars, seen, trackerVars, external_nodes, hubVars, stop_spin, spinVars,
                 held, task, stop_err, nev, log>>

\* A call of get_subscription_count(guid).
QuerySubscriptionCount(guid) ==
  /\ held["writers_to_remote_readers"] = ""
  /\ query' = [fn |-> "get_subscription_count", guid |-> guid,
               count |-> get_subscription_count(guid).count,
               err |-> get_subscription_count(guid).err]
  /\ UNCHANGED <<registryVars, seen, trackerVars, external_nodes, hubVars, stop_spin, spinVars,
                 held, task, stop_err, nev, log>>

\* Mutant: the stop channel is async_channel::unbounded().
DropNode_Unbounded ==
  /\ stop_spin' = stop_spin + 1
  /\ stop_err' = FALSE
  /\ UNCHANGED <<registryVars, seen, trackerVars, external_nodes, hubVars, spinVars,
                 held, task, query, nev, log>>

\* Drop for Node: stop_spin_sender.try_send(()) on the bounded(1) channel.
DropNode ==
  /\ IF stop_spin < StopCap
       THEN stop_spin' = stop_spin + 1 /\ stop_err' = FALSE
       ELSE stop_spin' = stop_spin /\ stop_err' = TRUE
  /\ UNCHANGED <<registryVars, seen, trackerVars, external_nodes, hubVars, spinVars, held, task,
                 query, nev, log>>

\* ---------------------------------------------------------- specifications

\* Spec: the whole node.  The loop takes status events and graph items and
\* stops on the stop token; components subscribe, read and drop their
\* Receivers; a task calls wait_for_writer / wait_for_reader, others the
\* match-count queries; the node is dropped at any time.
AllStatus == {RemoteWriterMatched("r1", "w1"), WriterLost("w1"),
              RemoteReaderMatched("v1", "q1"), ReaderLost("q1"), OtherStatus}
AllGraph == {GraphOk("p1", <<"nA">>), GraphErr}

Next ==
  \/ SpinStart
  \/ SpinStop
  \/ \E e \in AllStatus : SpinDds(e, MaxEvents, "count")
  \/ \E g \in AllGraph : SpinRos(g, MaxEvents, "count")
  \/ SpinSend
  \/ AppSubscribe(MaxChans)
  \/ \E c \in DOMAIN chan : AppRecv(c)
  \/ \E c \in DOMAIN chan : AppClose(c)
  \/ WaitBegin("t1", "wait_for_writer", "r1", MaxChans)
  \/ WaitBegin("t1", "wait_for_reader", "v1", MaxChans)
  \/ WaitCheck("t1")
  \/ WaitRecv("t1")
  \/ WaitAbandon("t1")
  \/ QueryPublisherCount("r1")
  \/ QuerySubscriptionCount("v1")
  \/ DropNode

Spec == Init /\ [][Next]_vars

\* SpecHub: the Event Distribution Hub.  The loop broadcasts status events
\* and graph snapshots to components that subscribe, read and drop their
\* Receivers.
HubStatus == {OtherStatus, RemoteWriterMatched("r1", "w1")}
HubGraph == {GraphOk("p1", <<"nA">>)}

NextHub ==
  \/ SpinStart
  \/ SpinStop
  \/ \E e \in HubStatus : SpinDds(e, MaxEventsHub, "count")
  \/ \E g \in HubGraph : SpinRos(g, MaxEventsHub, "count")
  \/ SpinSend
  \/ AppSubscribe(MaxChansHub)
  \/ \E c \in DOMAIN chan : AppRecv(c)
  \/ \E c \in DOMAIN chan : AppClose(c)
  \/ DropNode

SpecHub == Init /\ [][NextHub]_vars

\* SpecTrack: the Match Tracker under every status event, with the
\* match-count queries.
NextTrack ==
  \/ SpinStart
  \/ \E e \in StatusEvents : SpinDds(e, MaxEventsTrack, "log")
  \/ SpinSend
  \/ \E guid \in Readers : QueryPublisherCount(guid)
  \/ \E guid \in Writers : QuerySubscriptionCount(guid)

SpecTrack == Init /\ [][NextTrack]_vars

\* SpecGraph: the External Node Table under every item of the graph stream,
\* with one subscribed component.
NextGraph ==
  \/ SpinStart
  \/ \E g \in GraphItems : SpinRos(g, MaxEventsGraph, "log")
  \/ SpinSend
  \/ AppSubscribe(MaxChansGraph)
  \/ \E c \in DOMAIN chan : AppRecv(c)

SpecGraph == Init /\ [][NextGraph]_vars

\* SpecWait: wait_for_writer(r1) and wait_for_reader(v1) called by two tasks
\* while the loop processes matches and losses of r1 and v1.
WaitStatus == {RemoteWriterMatched("r1", "w1"), WriterLost("w1"),
               RemoteReaderMatched("v1", "q1"), ReaderLost("q1")}

NextWait ==
  \/ SpinStart
  \/ \E e \in WaitStatus : SpinDds(e, MaxEventsWait, "log")
  \/ SpinSend
  \/ \E t \in Tasks : WaitBegin(t, "wait_for_writer", "r1", MaxChansWait)
  \/ \E t \in Tasks : WaitBegin(t, "wait_for_reader", "v1", MaxChansWait)
  \/ \E t \in Tasks : WaitCheck(t)
  \/ \E t \in Tasks : WaitRecv(t)
  \/ \E t \in Tasks : WaitAbandon(t)

SpecWait == Init /\ [][NextWait]_vars

\* SpecFull: enough events to fill a queue of QueueCap, for components that
\* subscribe and read.
FullStatus == {OtherStatus, RemoteWriterMatched("r1", "w1")}

NextFull ==
  \/ SpinStart
  \/ \E e \in FullStatus : SpinDds(e, MaxEventsFull, "count")
  \/ SpinSend
  \/ AppSubscribe(MaxChansFull)
  \/ \E c \in DOMAIN chan : AppRecv(c)

SpecFull == Init /\ [][NextFull]_vars

\* FairWaitFull: one call of wait_for_writer(r1) while the loop takes enough
\* events to fill the caller's queue.  The executor runs a task that can
\* take a step: the loop finishes the arm it is in, the waiter goes on to
\* its check and reads its queue while there is something in it.
NextWaitFull ==
  \/ SpinStart
  \/ \E e \in FullStatus : SpinDds(e, MaxEventsFull, "count")
  \/ SpinSend
  \/ WaitBegin("t1", "wait_for_writer", "r1", MaxChansWaitFull)
  \/ WaitCheck("t1")
  \/ WaitRecv("t1")

FairWaitFull ==
  /\ Init /\ [][NextWaitFull]_vars
  /\ WF_vars(SpinSend)
  /\ WF_vars(WaitCheck("t1"))
  /\ WF_vars(WaitRecv("t1"))

\* FairStop: the loop with streams that never end (no history is kept of
\* them) and the node's Drop.  The executor lets the loop finish the arm it
\* is in (WF), and select! chooses at random among the branches that are
\* ready, so a stop token that is pending each time the loop comes back to its
\* select is taken at last (SF).
StopStatus == ReaderSideEvents \cup {OtherStatus}
StopGraph == {GraphOk("p1", <<"nA">>), GraphOk("p1", <<"nB">>), GraphErr}

NextStop ==
  \/ SpinStart
  \/ SpinStop
  \/ \E e \in StopStatus : SpinDds(e, 0, "free")
  \/ \E g \in StopGraph : SpinRos(g, 0, "free")
  \/ SpinSend
  \/ DropNode

FairStop ==
  /\ Init /\ [][NextStop]_vars
  /\ WF_vars(SpinSend)
  /\ SF_vars(SpinStop)

\* SpecRegistry: the Entity Registry of a node built with either value of
\* enable_rosout, under add_reader and add_writer calls with any ids, ids
\* registered before included.
NextRegistry ==
  \/ \E gid \in Gids : add_reader(gid)
  \/ \E gid \in Gids : add_writer(gid)

SpecRegistry == InitOptions /\ [][NextRegistry]_vars

\* SpecPass: every status event, recognized or not, on its way from the
\* status stream to a component that subscribes and has not read yet.
NextPass ==
  \/ SpinStart
  \/ \E e \in StatusEvents : SpinDds(e, MaxEventsPass, "log")
  \/ SpinSend
  \/ AppSubscribe(MaxChansPass)

SpecPass == Init /\ [][NextPass]_vars

\* SpecOrder: one observed component that subscribes at any time and reads
\* at any pace, while the loop takes more events than its queue holds.
OrderStatus == {OtherStatus, RemoteWriterMatched("r1", "w1")}

NextOrder ==
  \/ SpinStart
  \/ \E e \in OrderStatus : SpinDds(e, MaxEventsOrder, "log")
  \/ SpinSend
  \/ ObsSubscribe
  \/ ObsRecv

SpecOrder == Init /\ [][NextOrder]_vars

\* SpecKeys: every operation of the node next to the Match Tracker:
\* endpoints are created and registered, components subscribe, a task waits
\* for a match, the counts are queried, while the loop takes status events
\* and graph snapshots.
KeysStatus == {RemoteWriterMatched("r1", "w1"), WriterLost("w1"),
               RemoteReaderMatched("v1", "q1"), ReaderLost("q1")}
KeysGraph == {GraphOk("p1", <<"nA">>)}

NextKeys ==
  \/ create_subscription("r1")
  \/ create_publisher("v1")
  \/ SpinStart
  \/ \E e \in KeysStatus : SpinDds(e, MaxEventsKeys, "log")
  \/ \E g \in KeysGraph : SpinRos(g, MaxEventsKeys, "log")
  \/ SpinSend
  \/ AppSubscribe(MaxChansKeys)
  \/ WaitBegin("t1", "wait_for_writer", "r1", MaxChansKeys)
  \/ WaitBegin("t1", "wait_for_reader", "v1", MaxChansKeys)
  \/ WaitCheck("t1")
  \/ WaitRecv("t1")
  \/ QueryPublisherCount("r1")
  \/ QuerySubscriptionCount("v1")

SpecKeys == Init /\ [][NextKeys]_vars

\* ------------------------------------------------------------------ claims

\* C1 (as claimed): a wait_for_writer(r) call during which the loop processes
\* a RemoteWriterMatched event for r eventually returns.
C1_MatchedWaitReturns ==
  \A t \in Tasks :
    (task[t].pc \in {"check", "waiting"} /\ task[t].matched)
      ~> (task[t].pc = "returned")

\* The step in which task t returns from its wait_for_* call.
Returns(t) == task[t].pc # "returned" /\ task'[t].pc = "returned"

\* C2 (as claimed): at the moment wait_for_writer(r) returns, r has at least
\* one matched remote writer in readers_to_remote_writers; at the moment
\* wait_for_reader(w) returns, w has at least one matched remote reader.
C2_ReturnsWithMatch ==
  [][\A t \in Tasks :
       Returns(t) =>
         /\ task'[t].fn = "wait_for_writer" =>
              MatchCount(readers_to_remote_writers', task'[t].guid).count >= 1
         /\ task'[t].fn = "wait_for_reader" =>
              MatchCount(writers_to_remote_readers', task'[t].guid).count >= 1]_vars

\* The step in which the loop makes one broadcast pass (send_status_event).
BroadcastStep == spin_pc \in {"dds_send", "ros_send"} /\ spin_pc' = "select"

\* A consumer that is subscribed, has its read side open and room in its queue.
Receptive(c) ==
  /\ InSenders(status_event_senders, c)
  /\ chan[c].open
  /\ Len(chan[c].q) < QueueCap

\* C3: in every broadcast pass, each subscribed consumer with an open read
\* side and a non-full queue gains exactly one copy of the event at the end
\* of its queue and stays subscribed, whatever other consumers have closed.
C3_FanOutOnce ==
  [][BroadcastStep =>
       \A c \in DOMAIN chan :
         Receptive(c) =>
           /\ chan'[c].q = Append(chan[c].q, spin_ev)
           /\ InSenders(status_event_senders', c)]_vars

\* C3 witness: three consumers subscribed, one closed its read side, and a
\* pass has delivered the only event broadcast so far once to the other two
\* and removed the closed one.
C3_Witness ==
  /\ Len(chan) = 3
  /\ nev = 1 /\ spin_pc = "select"
  /\ ~chan[2].open /\ ~InSenders(status_event_senders, 2)
  /\ \A c \in {1, 3} :
       chan[c].open /\ Len(chan[c].q) = 1 /\ InSenders(status_event_senders, c)

\* A subscribed consumer whose queue holds QueueCap events.
FullConsumer(c) ==
  /\ InSenders(status_event_senders, c)
  /\ chan[c].open
  /\ Len(chan[c].q) = QueueCap

\* C4: a broadcast pass that meets a consumer with a full queue leaves that
\* consumer's queue as it was and the consumer subscribed, serves every
\* consumer that has room, and is never held up: with a full consumer in the
\* list the loop's send step is enabled, and it brings the loop back to its
\* select.
C4_FullQueueDropsForThatConsumerOnly ==
  /\ []((spin_pc \in {"dds_send", "ros_send"}
          /\ \E c \in DOMAIN chan : FullConsumer(c)) => ENABLED SpinSend)
  /\ [][BroadcastStep =>
          \A c \in DOMAIN chan :
            /\ FullConsumer(c) =>
                 /\ chan'[c] = chan[c]
                 /\ InSenders(status_event_senders', c)
            /\ Receptive(c) => chan'[c].q = Append(chan[c].q, spin_ev)]_vars

\* C4 witness: nine events were broadcast; consumer 1 holds the first eight,
\* consumer 2 was served the ninth, which consumer 1's full queue did not take.
C4_Witness ==
  /\ nev = 9 /\ spin_pc = "select"
  /\ Len(chan) = 2
  /\ FullConsumer(1)
  /\ \A i \in 1..QueueCap : chan[1].q[i] = DDS(OtherStatus)
  /\ chan[2].open
  /\ chan[2].q = <<DDS(RemoteWriterMatched("r1", "w1"))>>

\* C5: the Discovery Loop is never blocked.  In every reachable state the
\* loop, when it is in an arm, can make its broadcast pass; when it is at its
\* select it can take the stop token if one is pending and can take any item
\* a stream offers; no task other than the loop holds a Mutex between its
\* steps, the loop holds one only inside the graph arm, which it can finish;
\* and a waiter that is about to read the Match Tracker can do so.
C5_LoopNeverBlocked ==
  /\ spin_pc \in {"dds_send", "ros_send"} => ENABLED SpinSend
  /\ spin_pc = "select" =>
       /\ stop_spin > 0 => ENABLED SpinStop
       /\ \A e \in StatusEvents : ENABLED SpinDds(e, 0, "free")
       /\ \A g \in GraphItems : ENABLED SpinRos(g, 0, "free")
  /\ \A g \in Regions :
       held[g] # "" => held[g] = "spin" /\ spin_pc = "ros_send"
  /\ \A t \in Tasks : task[t].pc = "check" => ENABLED WaitCheck(t)

\* C5 witness: the loop is in the arm of a status event, about to broadcast,
\* while a waiter is suspended, a consumer in the list has closed its read
\* side and a match-count query has run.
C5_Witness ==
  /\ spin_pc = "dds_send"
  /\ task["t1"].pc = "waiting"
  /\ \E c \in DOMAIN chan : InSenders(status_event_senders, c) /\ ~chan[c].open
  /\ query.fn # "-"

\* The step in which the loop takes a status event and runs its match arm.
StatusStep == spin_pc = "select" /\ spin_pc' = "dds_send"

\* What a lost remote endpoint must do to one map: every key stays, every
\* entry that held the endpoint has one match less, the others are as before.
LostEffect(old, new, guid) ==
  /\ DOMAIN new = DOMAIN old
  /\ \A k \in DOMAIN new :
       /\ guid \notin new[k]
       /\ Cardinality(new[k]) =
            IF guid \in old[k] THEN Cardinality(old[k]) - 1
            ELSE Cardinality(old[k])

\* C6: when the loop processes WriterLost{w}, no entry of
\* readers_to_remote_writers holds w afterwards, each reader that had w has
\* its count reduced by exactly one and every other reader keeps its count;
\* the same for ReaderLost{r} and writers_to_remote_readers.
C6_LostRemovesEverywhere ==
  [][StatusStep =>
       /\ spin_ev'.type = "WriterLost" =>
            LostEffect(readers_to_remote_writers, readers_to_remote_writers',
                       spin_ev'.remote)
       /\ spin_ev'.type = "ReaderLost" =>
            LostEffect(writers_to_remote_readers, writers_to_remote_readers',
                       spin_ev'.remote)]_vars

\* C6 witness: w1 was matched with r1 and with r2 and then lost; both readers
\* are known with no match.
C6_Witness ==
  /\ log = <<DDS(RemoteWriterMatched("r1", "w1")),
             DDS(RemoteWriterMatched("r2", "w1")), DDS(WriterLost("w1"))>>
  /\ get_publisher_count("r1") = [count |-> 0, err |-> FALSE]
  /\ get_publisher_count("r2") = [count |-> 0, err |-> FALSE]

\* The remote endpoints that, by the history, are matched with `local`: some
\* match event names the pair and no lost event of the remote follows it.
LiveByHistory(matchType, lostType, local, remotes) ==
  {x \in remotes :
     \E i \in 1..Len(log) :
       /\ log[i].kind = "DDS" /\ log[i].type = matchType
       /\ log[i].local = local /\ log[i].remote = x
       /\ \A j \in (i + 1)..Len(log) :
            ~(log[j].kind = "DDS" /\ log[j].type = lostType
                /\ log[j].remote = x)}

\* C7: after any sequence of status events, get_publisher_count(r) is the
\* number of distinct remote writers matched with r and not lost since their
\* latest match, and get_subscription_count(w) the number of such readers.
C7_CountIsLiveMatches ==
  /\ \A r \in Readers :
       get_publisher_count(r).count =
         Cardinality(LiveByHistory("RemoteWriterMatched", "WriterLost", r,
                                   RemoteWriters))
  /\ \A v \in Writers :
       get_subscription_count(v).count =
         Cardinality(LiveByHistory("RemoteReaderMatched", "ReaderLost", v,
                                   RemoteReaders))

\* C7 witness: r1 was matched with w1 twice and with w2 once, and a query
\* of get_publisher_count(r1) gave 2.
C7_Witness ==
  /\ log = <<DDS(RemoteWriterMatched("r1", "w1")),
             DDS(RemoteWriterMatched("r1", "w1")),
             DDS(RemoteWriterMatched("r1", "w2"))>>
  /\ query = [fn |-> "get_publisher_count", guid |-> "r1", count |-> 2,
              err |-> FALSE]

\* The map a match-count query reads.
QueriedMap(q) ==
  IF q.fn = "get_publisher_count" THEN readers_to_remote_writers
  ELSE writers_to_remote_readers

\* C8: a match-count query for an id that is no key of its map gives 0 with
\* the error signal, a query for a key with an empty set gives 0 without it,
\* and the query changes neither map.
C8_UnknownVersusEmpty ==
  [][query' # query =>
       /\ query'.guid \notin DOMAIN QueriedMap(query') =>
            query'.count = 0 /\ query'.err
       /\ (query'.guid \in DOMAIN QueriedMap(query')
             /\ QueriedMap(query')[query'.guid] = {}) =>
            query'.count = 0 /\ ~query'.err
       /\ UNCHANGED trackerVars]_vars

\* C8 witness: r1 is a key with an empty set and was queried (0, no error)
\* while r2 is no key.
C8_Witness ==
  /\ "r1" \in DOMAIN readers_to_remote_writers
  /\ readers_to_remote_writers["r1"] = {}
  /\ "r2" \notin DOMAIN readers_to_remote_writers
  /\ query = [fn |-> "get_publisher_count", guid |-> "r1", count |-> 0,
              err |-> FALSE]

\* The step in which the loop takes a successful graph snapshot.
GraphStep == spin_pc = "select" /\ spin_pc' = "ros_send"

\* C9: when the loop processes a successful snapshot (P, D2), the entry of P
\* in external_nodes is exactly D2 afterwards and every other participant's
\* entry is as before.
C9_SnapshotReplaces ==
  [][GraphStep =>
       /\ DOMAIN external_nodes' = DOMAIN external_nodes \cup {spin_ev'.local}
       /\ external_nodes'[spin_ev'.local] = spin_ev'.seq
       /\ \A k \in DOMAIN external_nodes \ {spin_ev'.local} :
            external_nodes'[k] = external_nodes[k]]_vars

\* C9 witness: p1 had the entry <<nA>> and the loop has just processed the
\* snapshot (p1, <<nB>>), while p2 has an entry of its own.
C9_Witness ==
  /\ spin_pc = "ros_send"
  /\ spin_ev = ROS(GraphOk("p1", <<"nB">>))
  /\ "p1" \in DOMAIN spin_old /\ spin_old["p1"] = <<"nA">>
  /\ external_nodes["p1"] = <<"nB">>
  /\ "p2" \in DOMAIN external_nodes

\* The Discovery Loop is Running: spin is in its loop.
Running == spin_pc \in {"select", "dds_send", "ros_send"}

\* C10: under fair selection among the loop's event sources, once a stop
\* token is pending while the loop is Running the loop reaches Stopped, even
\* though both streams go on delivering items for ever.
C10_StopEndsLoop == (Running /\ stop_spin > 0) ~> (spin_pc = "ended")

\* C10 witness: the loop has ended on the stop token after it processed
\* matches of both readers and a graph snapshot.
C10_Witness ==
  /\ spin_pc = "ended" /\ stop_spin = 0
  /\ DOMAIN readers_to_remote_writers = Readers
  /\ "p1" \in DOMAIN external_nodes

\* C11: a stop request never blocks and is idempotent.  The stop channel
\* never holds more than StopCap = 1 tokens; Drop's request can be made in
\* every reachable state; and a request made while a token is pending logs
\* the error and leaves the stop channel, both Match Tracker maps, the
\* External Node Table and the consumer list with its channels as they were.
C11_StopRequestIdempotent ==
  /\ [](stop_spin <= StopCap)
  /\ [](ENABLED DropNode)
  /\ [][(stop_spin >= StopCap /\ stop_err' # stop_err) =>
          /\ stop_err'
          /\ UNCHANGED <<stop_spin, trackerVars, external_nodes, hubVars>>]_vars

\* C11 witness: the loop has ended on a first token, a second one is
\* pending and a third request has failed and was logged, with a match in
\* the Match Tracker and a consumer subscribed.
C11_Witness ==
  /\ spin_pc = "ended"
  /\ stop_spin = StopCap /\ stop_err
  /\ AlreadyPresent(readers_to_remote_writers, "r1")
  /\ Len(status_event_senders) >= 1

\* The step of an add_reader / add_writer call (reg' names the call).
RegisterStep ==
  <<readers, writers, node_info, reg>>' # <<readers, writers, node_info, reg>>

\* C12: add_reader with an id that is already in readers, and add_writer
\* with an id that is already in writers, leave both owned sets and the
\* descriptor given to the discovery layer exactly as they were.
C12_ReRegistrationIsNoOp ==
  [][RegisterStep =>
       /\ (reg'.fn = "add_reader" /\ reg'.gid \in readers) =>
            UNCHANGED <<readers, writers, node_info>>
       /\ (reg'.fn = "add_writer" /\ reg'.gid \in writers) =>
            UNCHANGED <<readers, writers, node_info>>]_vars

\* C12 witness: reader 2 was registered, then reader 1 and writer 3, and
\* the last call was add_reader(2) again; the descriptor lists 1, 2 once each.
C12_Witness ==
  /\ reg = [fn |-> "add_reader", gid |-> 2, present |-> TRUE]
  /\ readers = {1, 2} /\ writers = {3}
  /\ node_info.sent /\ node_info.info.reader_gid_seq = <<1, 2>>

\* The ids an id sequence of a descriptor lists.
Elems(seq) == {seq[i] : i \in 1..Len(seq)}

\* C13: after any add_reader / add_writer calls the descriptor last given to
\* the discovery layer is the one generate_node_info gives now; its reader
\* ids are exactly the registered readers; its writer ids are exactly the
\* registered writers, the parameter-events writer, and the rosout writer if
\* and only if the node has one; and neither owned set ever loses an id.
C13_DescriptorIsCurrent ==
  /\ [](reg.fn # "-" => node_info.sent)
  /\ [](node_info.sent =>
          /\ node_info.info =
               generate_node_info(readers, writers, rosout_writer)
          /\ Elems(node_info.info.reader_gid_seq) = readers
          /\ Elems(node_info.info.writer_gid_seq) =
               writers \cup {ParameterEventsGid}
                 \cup (IF rosout_writer THEN {RosoutGid} ELSE {}))
  /\ [][readers \subseteq readers' /\ writers \subseteq writers']_vars

\* C13 witness: a node with a rosout writer registered readers 3 and 1 and
\* writer 2 (the last call); the descriptor lists the two built-in writers
\* and writer 2.
C13_Witness ==
  /\ rosout_writer
  /\ reg = [fn |-> "add_writer", gid |-> 2, present |-> FALSE]
  /\ readers = {1, 3} /\ writers = {2}
  /\ node_info.info.reader_gid_seq = <<1, 3>>
  /\ node_info.info.writer_gid_seq = <<ParameterEventsGid, RosoutGid, 2>>

\* The step in which the suspended call of task t is abandoned.
AbandonStep(t) == task[t].pc = "waiting" /\ task'[t].pc = "idle"

\* A call in progress: subscribed, not yet returned or abandoned.
InCall(t) == task[t].pc \in {"check", "waiting"}

\* C14: abandoning a task suspended in wait_for_writer / wait_for_reader
\* changes neither Match Tracker map, nor the consumer list, nor the queue of
\* any other consumer, nor the call of any other task; and with abandoned
\* consumers in the list every broadcast pass still appends the event to the
\* queue of each other call in progress that has room and keeps it
\* subscribed, and a suspended call whose queue holds an event can read it.
C14_AbandonHasNoOtherEffect ==
  /\ [][\A t \in Tasks :
          AbandonStep(t) =>
            /\ UNCHANGED <<trackerVars, status_event_senders>>
            /\ \A c \in DOMAIN chan \ {task[t].rx} : chan'[c] = chan[c]
            /\ \A u \in Tasks \ {t} : task'[u] = task[u]]_vars
  /\ [][BroadcastStep =>
          \A u \in Tasks :
            (InCall(u) /\ Len(chan[task[u].rx].q) < QueueCap) =>
              /\ chan'[task[u].rx].q = Append(chan[task[u].rx].q, spin_ev)
              /\ InSenders(status_event_senders', task[u].rx)]_vars
  /\ [](\A u \in Tasks :
          (task[u].pc = "waiting" /\ chan[task[u].rx].q # <<>>) =>
            ENABLED WaitRecv(u))

\* C14 witness: t1's call was abandoned and its Sender removed by a later
\* pass, and t2, which subscribed after t1, has returned on its match event.
C14_Witness ==
  /\ task["t1"].pc = "idle" /\ task["t1"].ret = "abandoned"
  /\ ~InSenders(status_event_senders, task["t1"].rx)
  /\ task["t2"].pc = "returned" /\ task["t2"].ret = "event"
  /\ task["t1"].rx < task["t2"].rx

\* C15: a wait_for_writer / wait_for_reader call has its Sender in the
\* consumer list, with its Receiver open, from before it reads the Match
\* Tracker until it returns or is abandoned; so every broadcast pass in that
\* time offers the event to the call's queue (appended if there is room,
\* dropped if not).  A call whose read finds a non-empty set returns at that
\* read, before any read of its queue, and a call whose read finds no match
\* goes on to its waiting loop with its queue untouched.
C15_SubscribedBeforeRead ==
  /\ [](\A t \in Tasks :
          InCall(t) =>
            /\ InSenders(status_event_senders, task[t].rx)
            /\ chan[task[t].rx].open)
  /\ [][BroadcastStep =>
          \A t \in Tasks :
            InCall(t) =>
              chan'[task[t].rx].q =
                IF Len(chan[task[t].rx].q) < QueueCap
                  THEN Append(chan[task[t].rx].q, spin_ev)
                  ELSE chan[task[t].rx].q]_vars
  /\ [][\A t \in Tasks :
          /\ (Returns(t) /\ task'[t].ret = "present") => task[t].pc = "check"
          /\ (task[t].pc = "check" /\ task'[t].pc # "check") =>
               IF AlreadyPresent(WaitMap(task[t].fn), task[t].guid)
                 THEN task'[t].pc = "returned" /\ task'[t].ret = "present"
                 ELSE /\ task'[t].pc = "waiting"
                      /\ chan'[task[t].rx] = chan[task[t].rx]]_vars

\* C15 witness: t1 read a non-empty set and returned at once, while t2
\* read an empty one, is suspended, and holds in its queue two events
\* broadcast after it subscribed.
C15_Witness ==
  /\ task["t1"].pc = "returned" /\ task["t1"].ret = "present"
  /\ task["t2"].pc = "waiting"
  /\ Len(chan[task["t2"].rx].q) = 2

\* The regions whose Mutex `who` holds locked when a step begins.
HeldBy(who) == {g \in Regions : held[g] = who}

\* C16 (as claimed): no task holds the Mutex of one region while it locks
\* another.  The loop's broadcast pass locks status_event_senders, its
\* status arm the map of the event, its graph arm external_nodes; a
\* wait_for_* call locks status_event_senders and then one map: each of
\* these steps begins with no other region held by the task that takes it.
C16_NoNestedLocks ==
  [][/\ BroadcastStep => HeldBy("spin") \subseteq {"status_event_senders"}
     /\ StatusStep => HeldBy("spin") \subseteq {RegionOf(spin_ev')}
     /\ GraphStep => HeldBy("spin") \subseteq {"external_nodes"}
     /\ \A t \in Tasks : task'[t] # task[t] => HeldBy(t) = {}]_vars

\* How many entries of the consumer list belong to channel c.
Entries(senders, c) == Cardinality({i \in 1..Len(senders) : senders[i] = c})

\* C17: a broadcast pass leaves in the consumer list exactly the consumers
\* that were in it and have their read side open, each as often as before
\* (once), and none of the closed ones, wherever in the list the closed ones
\* are; no other step takes an entry out of the list; and no consumer is in
\* the list twice.
C17_PassRemovesExactlyClosed ==
  /\ [][BroadcastStep =>
          \A c \in DOMAIN chan :
            Entries(status_event_senders', c) =
              IF chan[c].open THEN Entries(status_event_senders, c) ELSE 0]_vars
  /\ [][~BroadcastStep =>
          \A c \in DOMAIN chan :
            Entries(status_event_senders', c) >=
              Entries(status_event_senders, c)]_vars
  /\ [](\A c \in DOMAIN chan : Entries(status_event_senders, c) <= 1)

\* C17 witness: three consumers subscribed, the first and the last closed
\* their read sides, and the one pass made since has left only the second
\* in the list, with the event in its queue.
C17_Witness ==
  /\ Len(chan) = 3 /\ nev = 1 /\ spin_pc = "select"
  /\ ~chan[1].open /\ ~chan[3].open
  /\ status_event_senders = <<2>>
  /\ chan[2].open /\ Len(chan[2].q) = 1

\* The status events the loop has taken and made its pass for.
Passed == IF spin_pc = "dds_send" THEN SubSeq(log, 1, Len(log) - 1) ELSE log

IsSuffix(q, all) ==
  Len(q) <= Len(all) /\ q = SubSeq(all, Len(all) - Len(q) + 1, Len(all))

\* C18: every status event the loop takes, whatever its variant, brings the
\* loop to its broadcast pass with that event as NodeEvent::DDS; the loop
\* leaves that position only by one pass, which appends the event to the
\* queue of every subscribed consumer; so a subscribed component that has not
\* read holds the events passed since it subscribed, each once and in order.
\* A variant other than RemoteWriterMatched, RemoteReaderMatched, WriterLost
\* and ReaderLost leaves both Match Tracker maps unchanged, and every event
\* leaves at least one of the two maps unchanged.
C18_EveryStatusEventPassesOnce ==
  /\ [][log' # log =>
          /\ StatusStep
          /\ spin_ev' = log'[Len(log')] /\ spin_ev'.kind = "DDS"
          /\ RegionOf(spin_ev') = "" => UNCHANGED trackerVars
          /\ \/ UNCHANGED readers_to_remote_writers
             \/ UNCHANGED writers_to_remote_readers]_vars
  /\ [][(spin_pc = "dds_send" /\ spin_pc' # spin_pc) =>
          /\ BroadcastStep
          /\ \A c \in DOMAIN chan :
               Receptive(c) => chan'[c].q = Append(chan[c].q, spin_ev)]_vars
  /\ [](\A c \in DOMAIN chan : IsSuffix(chan[c].q, Passed))

\* C18 witness: the loop took an unrecognized status event and then
\* ReaderLost(q1); a component that subscribed before both holds the two as
\* DDS events in that order, and neither map has an entry.
C18_Witness ==
  /\ spin_pc = "select"
  /\ log = <<DDS(OtherStatus), DDS(ReaderLost("q1"))>>
  /\ Len(chan) = 1 /\ chan[1].q = log
  /\ readers_to_remote_writers = EmptyMap
  /\ writers_to_remote_readers = EmptyMap

\* The step in which the loop takes an Err item of the ros_discovery stream.
GraphErrStep == log' # log /\ log'[Len(log')] = GraphErrMark

\* C19: an Err item of the ros_discovery stream leaves external_nodes, the
\* consumer list and every consumer's queue unchanged and the loop at its
\* select with no event to broadcast; no consumer ever holds an event for
\* it; and after it the loop can take any further item of either stream.
C19_GraphErrorIsSkipped ==
  /\ [][GraphErrStep =>
          /\ UNCHANGED <<external_nodes, hubVars, trackerVars>>
          /\ spin_pc = "select" /\ spin_pc' = "select"
          /\ spin_ev' = NoEvent]_vars
  /\ [](\A c \in DOMAIN chan :
          \A i \in 1..Len(chan[c].q) : chan[c].q[i].kind \in {"DDS", "ROS"})
  /\ []((log # <<>> /\ log[Len(log)] = GraphErrMark) =>
          /\ Running
          /\ \A g \in GraphItems : ENABLED SpinRos(g, 0, "free")
          /\ \A e \in StatusEvents : ENABLED SpinDds(e, 0, "free"))

\* C19 witness: a snapshot (p1, <<nA>>), then an Err item, then a snapshot
\* (p1, <<nB>>) which replaced the entry; the component that subscribed
\* first holds the two snapshots and nothing for the error.
C19_Witness ==
  /\ spin_pc = "select"
  /\ log = <<ROS(GraphOk("p1", <<"nA">>)), GraphErrMark,
             ROS(GraphOk("p1", <<"nB">>))>>
  /\ external_nodes["p1"] = <<"nB">>
  /\ Len(chan) = 1
  /\ chan[1].q = <<ROS(GraphOk("p1", <<"nA">>)), ROS(GraphOk("p1", <<"nB">>))>>

\* C20: the loop leaves Running only in the step that takes a stop token
\* from the stop channel, at its select; and once it has ended it stays
\* ended, takes no further stream item, changes neither Match Tracker map
\* nor external_nodes, and makes no broadcast pass: no consumer's queue
\* grows and no entry leaves the consumer list.
C20_OnlyStopEndsLoop ==
  /\ [][(Running /\ ~Running') =>
          /\ spin_pc = "select" /\ spin_pc' = "ended"
          /\ stop_spin > 0 /\ stop_spin' = stop_spin - 1]_vars
  /\ [][spin_pc = "ended" =>
          /\ spin_pc' = "ended"
          /\ UNCHANGED <<trackerVars, external_nodes, nev, spin_ev>>
          /\ \A c \in DOMAIN chan :
               /\ Len(chan'[c].q) <= Len(chan[c].q)
               /\ Entries(status_event_senders', c) >=
                    Entries(status_event_senders, c)]_vars

\* C20 witness: the loop took one item, made a pass that removed a closed
\* consumer and served an open one, and then ended on the stop token; the
\* served consumer still holds the event and is still in the list.
C20_Witness ==
  /\ spin_pc = "ended" /\ stop_spin = 0 /\ nev = 1
  /\ Len(chan) = 2
  /\ ~chan[1].open /\ ~InSenders(status_event_senders, 1)
  /\ chan[2].open /\ Len(chan[2].q) = 1
  /\ InSenders(status_event_senders, 2)

\* The local endpoints some match event of the history names.
NamedInMatch(matchType) ==
  {log[i].local : i \in {j \in 1..Len(log) : log[j].type = matchType}}

\* C21: no step removes a key from either Match Tracker map; so every local
\* endpoint that a processed match event has named is a key in every later
\* state, also when lost events have emptied its set, and the match-count
\* query reports it without the error signal.
C21_KeysAreNeverRemoved ==
  /\ [][/\ DOMAIN readers_to_remote_writers
             \subseteq DOMAIN readers_to_remote_writers'
        /\ DOMAIN writers_to_remote_readers
             \subseteq DOMAIN writers_to_remote_readers']_vars
  /\ [](\A r \in NamedInMatch("RemoteWriterMatched") :
          r \in DOMAIN readers_to_remote_writers
            /\ ~get_publisher_count(r).err)
  /\ [](\A v \in NamedInMatch("RemoteReaderMatched") :
          v \in DOMAIN writers_to_remote_readers
            /\ ~get_subscription_count(v).err)

\* C21 witness: v1 was matched with q1, q1 was lost, and a query of
\* get_subscription_count(v1) afterwards gave 0 without the error, while
\* v2, never matched, is no key.
C21_Witness ==
  /\ log = <<DDS(RemoteReaderMatched("v1", "q1")), DDS(ReaderLost("q1"))>>
  /\ writers_to_remote_readers["v1"] = {}
  /\ "v2" \notin DOMAIN writers_to_remote_readers
  /\ query = [fn |-> "get_subscription_count", guid |-> "v1", count |-> 0,
              err |-> FALSE]

\* The step places an event at the end of consumer c's queue.
Placed(c) == Len(chan'[c].q) > Len(chan[c].q)

\* The maps rmap (reader side) and wmap (writer side) show the effect of ev.
Reflects(ev, rmap, wmap) ==
  /\ ev.type = "RemoteWriterMatched" =>
       ev.local \in DOMAIN rmap /\ ev.remote \in rmap[ev.local]
  /\ ev.type = "WriterLost" => \A k \in DOMAIN rmap : ev.remote \notin rmap[k]
  /\ ev.type = "RemoteReaderMatched" =>
       ev.local \in DOMAIN wmap /\ ev.remote \in wmap[ev.local]
  /\ ev.type = "ReaderLost" => \A k \in DOMAIN wmap : ev.remote \notin wmap[k]

\* C22: the Match Tracker is updated before the event is broadcast.  In
\* every step that places a status event in a consumer's queue, the maps
\* show the event's effect already when the step begins, and still when it
\* ends: a matched remote endpoint is in the set of the local one, a lost
\* one is in no set.
C22_UpdateBeforeBroadcast ==
  [][\A c \in DOMAIN chan :
       Placed(c) =>
         LET ev == chan'[c].q[Len(chan'[c].q)]
         IN /\ ev.kind = "DDS"
            /\ Reflects(ev, readers_to_remote_writers,
                        writers_to_remote_readers)
            /\ Reflects(ev, readers_to_remote_writers',
                        writers_to_remote_readers')]_vars

\* C22 witness: a component subscribed, then the loop processed and
\* broadcast RemoteWriterMatched(r1, w1) and WriterLost(w1); the component
\* holds both and r1 is a key with no match.
C22_Witness ==
  /\ spin_pc = "select"
  /\ log = <<DDS(RemoteWriterMatched("r1", "w1")), DDS(WriterLost("w1"))>>
  /\ Len(chan) = 1 /\ chan[1].q = log
  /\ readers_to_remote_writers["r1"] = {}

\* a is an order-preserving subsequence of b.
RECURSIVE IsSubseq(_, _)
IsSubseq(a, b) ==
  IF a = <<>> THEN TRUE
  ELSE IF b = <<>> THEN FALSE
  ELSE IF Head(a) = Head(b) THEN IsSubseq(Tail(a), Tail(b))
  ELSE IsSubseq(a, Tail(b))

\* C23: what a component has read from its Receiver, followed by what its
\* queue still holds, is an order-preserving subsequence of the events
\* broadcast since its status_receiver() call returned: nothing from before
\* the call, nothing more often than it was broadcast, nothing out of order.
C23_ReadsAreSubsequenceOfBroadcasts ==
  seen.rx # 0 =>
    IsSubseq(seen.got \o chan[seen.rx].q,
             SubSeq(log, seen.since + 1, PassedCount))

\* C23 witness: the component subscribed before the first of ten events
\* and did not read until eight were queued; the ninth found the queue full
\* and was dropped; the component then read, the tenth (another event than
\* the ninth) was queued, and it has read that too: the first eight and the
\* tenth, in that order.
C23_Witness ==
  /\ spin_pc = "select" /\ Len(log) = 10
  /\ seen.rx # 0 /\ seen.since = 0
  /\ chan[seen.rx].q = <<>>
  /\ seen.got = Append(SubSeq(log, 1, 8), log[10])
  /\ log[9] # log[10] /\ log[1] # log[2]

\* The keys the step adds to a map.
NewKeys(old, new) == DOMAIN new \ DOMAIN old

\* C24: a key enters readers_to_remote_writers only in the step in which
\* the loop processes a RemoteWriterMatched event, and it is that event's
\* local reader; likewise for writers_to_remote_readers and
\* RemoteReaderMatched.  No other step (registration, subscription, wait,
\* query, graph snapshot, lost event) adds a key; so for an endpoint that is
\* registered and that no match event has named, the match-count query
\* gives 0 with the error signal.
C24_OnlyMatchEventsCreateKeys ==
  /\ [][/\ \A k \in NewKeys(readers_to_remote_writers,
                            readers_to_remote_writers') :
             /\ StatusStep
             /\ spin_ev'.type = "RemoteWriterMatched" /\ spin_ev'.local = k
        /\ \A k \in NewKeys(writers_to_remote_readers,
                            writers_to_remote_readers') :
             /\ StatusStep
             /\ spin_ev'.type = "RemoteReaderMatched" /\ spin_ev'.local = k]_vars
  /\ [](\A r \in Readers :
          (GidOf(r) \in readers /\ r \notin NamedInMatch("RemoteWriterMatched"))
            => get_publisher_count(r) = [count |-> 0, err |-> TRUE])
  /\ [](\A v \in Writers :
          (GidOf(v) \in writers /\ v \notin NamedInMatch("RemoteReaderMatched"))
            => get_subscription_count(v) = [count |-> 0, err |-> TRUE])
  /\ [][(query' # query /\ query'.fn = "get_publisher_count"
           /\ query'.guid \notin NamedInMatch("RemoteWriterMatched")) =>
          query'.count = 0 /\ query'.err]_vars

\* C24 witness: reader r1 was created and registered, the loop processed a
\* WriterLost event and a graph snapshot, a task is suspended in
\* wait_for_writer(r1), and get_publisher_count(r1) has just reported r1 as
\* unknown; r1 is no key.
C24_Witness ==
  /\ GidOf("r1") \in readers
  /\ log = <<DDS(WriterLost("w1")), ROS(GraphOk("p1", <<"nA">>))>>
  /\ task["t1"].pc = "waiting" /\ task["t1"].guid = "r1"
  /\ query = [fn |-> "get_publisher_count", guid |-> "r1", count |-> 0,
              err |-> TRUE]
  /\ "r1" \notin DOMAIN readers_to_remote_writers

\* The channels whose Receiver is still held (open) / was dropped (closed).
OpenHandles == {c \in DOMAIN chan : chan[c].open}
ClosedInList ==
  {c \in DOMAIN chan : ~chan[c].open /\ InSenders(status_event_senders, c)}

\* The step in which a task calls wait_for_writer / wait_for_reader.
CallStep(t) == task[t].pc \in {"idle", "returned"} /\ task'[t].pc = "check"

\* C25: the consumer list holds one entry for every open handle and one
\* for every closed handle it still lists, and nothing else; a broadcast
\* pass leaves no closed handle in the list, so the closed ones listed were
\* closed since the last pass.  Every wait_for_* call adds one entry; when
\* the call returns, at once or after waiting, its entry is still in the
\* list; and no step but a pass makes the list shorter, so with the loop
\* not started or ended the entries stay for good.
C25_ListBoundedByHandles ==
  /\ [](Len(status_event_senders) =
          Cardinality(OpenHandles) + Cardinality(ClosedInList))
  /\ [](\A c \in OpenHandles : InSenders(status_event_senders, c))
  /\ [][BroadcastStep =>
          \A c \in DOMAIN chan :
            InSenders(status_event_senders', c) => chan'[c].open]_vars
  /\ [][\A t \in Tasks :
          /\ CallStep(t) =>
               Len(status_event_senders') = Len(status_event_senders) + 1
          /\ Returns(t) =>
               /\ ~chan'[task[t].rx].open
               /\ InSenders(status_event_senders', task[t].rx)]_vars
  /\ [][~BroadcastStep =>
          Len(status_event_senders') >= Len(status_event_senders)]_vars
  /\ [][(spin_pc \in {"not_started", "ended"}) =>
          \A c \in DOMAIN chan :
            InSenders(status_event_senders, c) =>
              InSenders(status_event_senders', c)]_vars

\* C25 witness: the loop processed a match of r1 and ended; after that
\* wait_for_writer(r1) was called twice and returned at once both times;
\* both calls' entries are in the list, with no handle open.
C25_Witness ==
  /\ spin_pc = "ended"
  /\ task["t1"].pc = "returned" /\ task["t1"].ret = "present"
  /\ Len(chan) = 2 /\ OpenHandles = {}
  /\ Len(status_event_senders) = 2
  /\ \A c \in DOMAIN chan : chan[c].owner = "t1"

====
